---------------------------- MODULE Spec2Model ----------------------------
(***************************************************************************)
(* Model of the N170 picture scrambler                                     *)
(* (psychopy_experiments/n170/picture_scrambler.py), of the trial builder  *)
(* and the penalty rule of the bundle pricing task                         *)
(* (psychopy_experiments/brand_associations/bundle_pricing_erp.py) and of  *)
(* the session loop of the flanker task                                    *)
(* (psychopy_experiments/flankers/flankers.py).                            *)
(*                                                                         *)
(* Sample values are exact rationals <<num, den>> in 8-bit level units:    *)
(* the sample k/255 that load_rgb01 produces is <<k, 1>>.  Floating-point  *)
(* rounding of float32/float64 is not modelled; every operation is         *)
(* computed in exact arithmetic.                                           *)
(* Phases are multiples of pi/2 ("quarter turns"): the angle q*pi/2 is the *)
(* integer q, so exp(i*phi) is one of 1, i, -1, -i.  Images have height    *)
(* and width in {1, 2}: the discrete Fourier transform of those lengths    *)
(* has the kernel {1, -1}, so every transform is an exact integer sum.     *)
(***************************************************************************)
EXTENDS Integers, Sequences, FiniteSets, TLC

VARIABLES
    dir,          \* the files of IN_DIR: name -> [kind, img]
    pc,           \* position of the script
    all_faces,    \* sorted glob of face_*.jpg
    all_cars,     \* sorted glob of car_*.jpg
    faces,        \* all_faces filtered by is_image_ok
    cars,         \* all_cars filtered by is_image_ok
    rng,          \* the shared generator: [created, pos, draws]
    label,        \* label of the running batch call ("face", "car", "none")
    k,            \* index of the current path in the running batch
    x,            \* batch local: the loaded original
    x_scr,        \* batch local: the result of phase_scramble_color_shared
    x_s,          \* batch local: the matched and clipped image
    scr,          \* record of the last phase_scramble_color_shared call
    outputs,      \* files written to OUT_DIR: out_name -> uint8 image
    log,          \* lines printed
    fieldOf,      \* history: input name -> number of the draw it received
    loadCalls,    \* history: the paths batch has called load_rgb01 on
    events,       \* history: the steps of batch, [ev, path], in order
    run,          \* number of the current run of the script (1 or 2)
    firstOutputs, \* outputs of the first run, kept when the script is run again
    alpha0,       \* the alpha handed to phase_scramble_color_shared
    src,          \* hist_match_channel argument
    tmpl,         \* hist_match_channel argument
    matched,      \* hist_match_channel result
    shuffled,     \* shuffle_with_constraint local: the list being repaired
    pos_i,        \* shuffle_with_constraint local: the index i of the inner loop
    pass_num,     \* shuffle_with_constraint local: the number of the pass
    violations_fixed, \* shuffle_with_constraint local
    tpc,          \* position in build_trials
    bundles_bought,   \* bundle pricing main: the count of bundles bought
    penalty,      \* bundle pricing main: the result of calculate_penalty
    penalty_desc, \* bundle pricing main: the band named on the end screen
    fpc,          \* position in flankers main
    total_trials, \* flankers main local
    cum_errors,   \* flankers main local
    block_idx,    \* flankers main local
    block_errors, \* flankers main local
    t_idx,        \* flankers main local: trials of the block done so far
    plan,         \* the participant: errors made in the running block
    msg,          \* flankers main local: the feedback of the last block
    bundle,       \* calculate_prices: the bundle argument
    condition,    \* calculate_prices: the condition argument
    priced,       \* calculate_prices: the outcome of the call
    block_size,   \* gen_block_trials: the argument
    gpc,          \* gen_block_trials: position in the call
    block_trials  \* gen_block_trials: the list it builds and returns

vars == <<dir, pc, all_faces, all_cars, faces, cars, rng, label, k, x, x_scr,
          x_s, scr, outputs, log, fieldOf, loadCalls, events, run, firstOutputs,
          alpha0, src, tmpl, matched, shuffled, pos_i, pass_num,
          violations_fixed, tpc, bundles_bought, penalty, penalty_desc,
          fpc, total_trials, cum_errors, block_idx, block_errors, t_idx, plan, msg,
          bundle, condition, priced, block_size, gpc, block_trials>>

runVars == <<dir, pc, all_faces, all_cars, faces, cars, rng, label, k, x,
             x_scr, x_s, scr, outputs, log, fieldOf, loadCalls, events, run,
             firstOutputs, alpha0>>

histVars == <<src, tmpl, matched>>

trialVars == <<shuffled, pos_i, pass_num, violations_fixed, tpc>>

penaltyVars == <<bundles_bought, penalty, penalty_desc>>

flankerVars == <<fpc, total_trials, cum_errors, block_idx, block_errors, t_idx,
                 plan, msg>>

priceVars == <<bundle, condition, priced>>

blockVars == <<block_size, gpc, block_trials>>

\* the variables of the other programs of the repository
otherVars == <<trialVars, penaltyVars, flankerVars, priceVars, blockVars>>

\* no array (None, or a local not yet assigned)
NoArray == <<>>

(***************************************************************************)
(* Program constants.                                                      *)
(***************************************************************************)
ALPHA == 0

RANDOM_SEED == 1234

\* load_rgb01 divides by 255.0 and save_rgb01 multiplies by 255.0: the
\* sample 1.0 is level 255.
White == 255

(***************************************************************************)
(* Bounds of the model.                                                    *)
(***************************************************************************)
\* Pixel levels drawn for input images: 0, White and 1..MidLevels.
MidLevels == 1

\* Largest number of pixels of a channel handed to hist_match_channel alone.
MaxPix == 3

\* Largest number of files in IN_DIR.
MaxFiles == 3

\* Largest angle, in quarter turns, that wrap_phase is evaluated at on its
\* own.
MaxTurns == 6

\* Largest generator position at which phase_scramble_color_shared is
\* called alone.
MaxPos == 3

PixLevels == {0, White} \cup (1..MidLevels)

(***************************************************************************)
(* Exact rational arithmetic.                                              *)
(***************************************************************************)
AbsInt(n) == IF n < 0 THEN -n ELSE n

\* greatest common divisor of n >= 0 and d > 0
GCD(n, d) ==
    IF d = 1 THEN 1
    ELSE LET common == {g \in 1..d : n % g = 0 /\ d % g = 0}
         IN  CHOOSE g \in common : \A h \in common : h <= g

\* the rational n / d (d # 0) in lowest terms with a positive denominator
Frac(n, d) ==
    LET g == GCD(AbsInt(n), AbsInt(d))
        s == IF d < 0 THEN -1 ELSE 1
    IN  <<(s * n) \div g, (s * d) \div g>>

FromInt(n) == <<n, 1>>

FAdd(a, b) == Frac(a[1] * b[2] + b[1] * a[2], a[2] * b[2])

FSub(a, b) == Frac(a[1] * b[2] - b[1] * a[2], a[2] * b[2])

FMul(a, b) == Frac(a[1] * b[1], a[2] * b[2])

FDiv(a, b) == Frac(a[1] * b[2], a[2] * b[1])

FLess(a, b) == a[1] * b[2] < b[1] * a[2]

FLeq(a, b) == a[1] * b[2] <= b[1] * a[2]

FAbs(a) == <<AbsInt(a[1]), a[2]>>

FNeg(a) == <<-a[1], a[2]>>

\* floor of a rational
FFloor(a) == a[1] \div a[2]

(***************************************************************************)
(* Arrays.  A channel is a sequence of H rows of W samples; an image is a  *)
(* sequence of C channels (the array img01[..., c] is img[c + 1]).         *)
(***************************************************************************)
\* numpy arrays hold their elements: a one-, two- or three-dimensional
\* array built by a comprehension, stored as sequences of values
Array1(f) == f \o <<>>

Array2(f) == [i \in DOMAIN f |-> Array1(f[i])] \o <<>>

Array3(f) == [c \in DOMAIN f |-> Array2(f[c])] \o <<>>

Height(ch) == Len(ch)

Width(ch) == IF Len(ch) = 0 THEN 0 ELSE Len(ch[1])

\* numpy's shape (H, W, C) of an image
Shape(img) == <<Height(img[1]), Width(img[1]), Len(img)>>

\* numpy's shape (H, W) of a channel
ChanShape(ch) == <<Height(ch), Width(ch)>>

\* ndarray.ravel(): row-major flattening
Ravel(ch) ==
    LET W == Width(ch)
    IN  Array1([p \in 1..(Height(ch) * W) |->
                   ch[((p - 1) \div W) + 1][((p - 1) % W) + 1]])

\* a reshape to the transposed shape
ReshapeTransposed(flat, shape) ==
    Array2([i \in 1..shape[2] |-> [j \in 1..shape[1] |-> flat[(i - 1) * shape[1] + j]]])

\* ndarray.reshape(shape) of a flat array
Reshape(flat, shape) ==
    Array2([i \in 1..shape[1] |-> [j \in 1..shape[2] |-> flat[(i - 1) * shape[2] + j]]])

\* The channels of h x w arrays over a set of values.
Channels(h, w, vals) == [1..h -> [1..w -> vals]]

IntChannel(ch) ==
    Array2([i \in 1..Height(ch) |-> [j \in 1..Width(ch) |-> FromInt(ch[i][j])]])


(***************************************************************************)
(* hist_match_channel and the numpy functions it uses.                     *)
(***************************************************************************)
SeqRange(f) == {f[p] : p \in DOMAIN f}

\* position of v in the sorted distinct values of vals
RankIn(v, vals) == Cardinality({u \in vals : FLess(u, v)}) + 1

\* np.unique(a): the sorted distinct values
Unique(flat) ==
    LET vals == SeqRange(flat)
    IN  Array1([r \in 1..Cardinality(vals) |-> CHOOSE v \in vals : RankIn(v, vals) = r])

\* an inverse that counts the distinct values from the largest down
UniqueInverseDescending(flat) ==
    Array1([p \in DOMAIN flat |->
               Cardinality(SeqRange(flat)) + 1 - RankIn(flat[p], SeqRange(flat))])

\* np.unique(a, return_inverse=True): index of each element in Unique(a)
UniqueInverse(flat) == Array1([p \in DOMAIN flat |-> RankIn(flat[p], SeqRange(flat))])

\* np.unique(a, return_counts=True): occurrences of each distinct value
UniqueCounts(flat) ==
    LET u == Unique(flat)
    IN  Array1([r \in DOMAIN u |-> Cardinality({p \in DOMAIN flat : flat[p] = u[r]})])

RECURSIVE SumTo(_, _)
SumTo(f, n) == IF n = 0 THEN 0 ELSE f[n] + SumTo(f, n - 1)

\* np.cumsum(counts)
CumSum(counts) == Array1([r \in DOMAIN counts |-> SumTo(counts, r)])

\* np.cumsum(counts).astype(np.float64) / size
Quantiles(counts, size) ==
    LET cum == CumSum(counts)
    IN  Array1([r \in DOMAIN counts |-> Frac(cum[r], size)])

\* an interpolation that continues the first and the last segment outside xp
Interp1Extrapolating(xq, xp, fp) ==
    LET n == Len(xp)
    IN  IF n = 1 THEN fp[1]
        ELSE LET j == IF FLess(xq, xp[1]) THEN 1
                      ELSE IF FLeq(xp[n], xq) THEN n - 1
                      ELSE CHOOSE i \in 1..(n - 1) : FLeq(xp[i], xq) /\ FLess(xq, xp[i + 1])
                 slope == FDiv(FSub(fp[j + 1], fp[j]), FSub(xp[j + 1], xp[j]))
             IN  FAdd(FMul(slope, FSub(xq, xp[j])), fp[j])

\* np.interp(x, xp, fp) for one x: piecewise linear, constant outside xp
Interp1(xq, xp, fp) ==
    LET n == Len(xp)
    IN  IF FLeq(xq, xp[1]) THEN fp[1]
        ELSE IF FLeq(xp[n], xq) THEN fp[n]
        ELSE LET j == CHOOSE i \in 1..(n - 1) : FLeq(xp[i], xq) /\ FLess(xq, xp[i + 1])
                 slope == FDiv(FSub(fp[j + 1], fp[j]), FSub(xp[j + 1], xp[j]))
             IN  FAdd(FMul(slope, FSub(xq, xp[j])), fp[j])

Interp(xs, xp, fp) == Array1([r \in DOMAIN xs |-> Interp1(xs[r], xp, fp)])

hist_match_channel(source, template) ==
    LET s == Ravel(source)
        t == Ravel(template)
        s_idx == UniqueInverse(s)
        s_counts == UniqueCounts(s)
        t_values == Unique(t)
        t_counts == UniqueCounts(t)
        s_quantiles == Quantiles(s_counts, Len(s))
        t_quantiles == Quantiles(t_counts, Len(t))
        interp_t_values == Interp(s_quantiles, t_quantiles, t_values)
    IN  Reshape([p \in DOMAIN s |-> interp_t_values[s_idx[p]]], ChanShape(source))

(***************************************************************************)
(* hist_match_channel on its own: every pair of channels of one shape with *)
(* at most MaxPix pixels.                                                  *)
(***************************************************************************)
\* Values of a pre-match channel: only their order matters to the matching;
\* -1 lies below the range [0,1].
SrcVals == (-1)..(MaxPix - 2)

HistShapes == {<<1, n>> : n \in 1..MaxPix} \cup {<<n, 1>> : n \in 2..MaxPix}

HistInit ==
    /\ \E sh \in HistShapes :
          /\ src \in {IntChannel(c) : c \in Channels(sh[1], sh[2], SrcVals)}
          /\ tmpl \in {IntChannel(c) : c \in Channels(sh[1], sh[2], PixLevels)}
    /\ matched = NoArray

HistCall ==
    /\ matched = NoArray
    /\ matched' = hist_match_channel(src, tmpl)
    /\ UNCHANGED <<src, tmpl, runVars, otherVars>>

(***************************************************************************)
(* The generator.  np.random.default_rng(seed) is a deterministic stream   *)
(* of values fixed by the seed; rng.uniform(-pi, pi, size=(H, W)) takes    *)
(* the next H*W values of the stream in row-major order.  The stream is    *)
(* modelled by a full-period congruential generator whose values are the   *)
(* quarter turns -2..1, that is the angles -pi, -pi/2, 0, pi/2 of the      *)
(* interval [-pi, pi) that uniform draws from.                             *)
(***************************************************************************)
RECURSIVE StreamState(_, _)
StreamState(seed, n) ==
    IF n = 0 THEN seed % 16 ELSE (5 * StreamState(seed, n - 1) + 3) % 16

StreamValue(seed, n) == (StreamState(seed, n) \div 4) - 2

default_rng(seed) == [created |-> TRUE, seed |-> seed, pos |-> 0, draws |-> 0]

\* before line 137 there is no generator
NoRng == [created |-> FALSE, seed |-> 0, pos |-> 0, draws |-> 0]

\* no call of phase_scramble_color_shared yet
NoCall == [status |-> "none", out |-> NoArray, rng |-> NoRng, phi |-> <<>>]

\* the array rng.uniform(-pi, pi, size=(H, W)) returns from state g
UniformField(g, H, W) ==
    Array2([i \in 1..H |-> [j \in 1..W |->
              StreamValue(g.seed, g.pos + (i - 1) * W + (j - 1))]])

\* the generator after that call
AfterUniform(g, H, W) == [g EXCEPT !.pos = @ + H * W, !.draws = @ + 1]

(***************************************************************************)
(* Complex numbers <<re, im>> of rationals, the transforms of lengths 1    *)
(* and 2, and phase_scramble_color_shared.                                 *)
(***************************************************************************)
Zero == FromInt(0)

CZero == <<Zero, Zero>>

CAdd(a, b) == <<FAdd(a[1], b[1]), FAdd(a[2], b[2])>>

\* a complex number times a rational
CScale(r, z) == <<FMul(r, z[1]), FMul(r, z[2])>>

\* np.abs of a number on an axis of the complex plane (all that arise here)
CAbs(z) == IF z[2] = Zero THEN FAbs(z[1]) ELSE FAbs(z[2])

\* np.angle of a number on an axis, in quarter turns: a value in (-pi, pi]
CAngle(z) ==
    IF z[2] = Zero
    THEN (IF FLess(z[1], Zero) THEN 2 ELSE 0)
    ELSE (IF FLess(z[2], Zero) THEN -1 ELSE 1)

\* np.exp(1j * phi) for quarter turns
CExp(q) ==
    CASE q % 4 = 0 -> <<FromInt(1), Zero>>
      [] q % 4 = 1 -> <<Zero, FromInt(1)>>
      [] q % 4 = 2 -> <<FromInt(-1), Zero>>
      [] q % 4 = 3 -> <<Zero, FromInt(-1)>>

\* exp(-2 pi i (u i / H + v j / W)) for H, W in {1, 2} and 0-based indices
Kernel(u, i, v, j) == IF (u * i + v * j) % 2 = 0 THEN FromInt(1) ELSE FromInt(-1)

RECURSIVE CSumTo(_, _)
CSumTo(f, n) == IF n = 0 THEN CZero ELSE CAdd(f[n], CSumTo(f, n - 1))

\* sum over all (i, j) of Kernel * z[i][j], for an array z of complex numbers
KernelSum(z, H, W, u, v) ==
    LET term == Array1([p \in 1..(H * W) |->
                    LET i == (p - 1) \div W
                        j == (p - 1) % W
                    IN  CScale(Kernel(u, i, v, j), z[i + 1][j + 1])])
    IN  CSumTo(term, H * W)

\* np.fft.fft2 of a real H x W array
fft2(ch) ==
    LET H == Height(ch)
        W == Width(ch)
        z == Array2([i \in 1..H |-> [j \in 1..W |-> <<ch[i][j], Zero>>]])
    IN  Array2([u \in 1..H |-> [v \in 1..W |-> KernelSum(z, H, W, u - 1, v - 1)]])

\* np.fft.ifft2 of a complex H x W array
ifft2(z) ==
    LET H == Height(z)
        W == Width(z)
    IN  Array2([i \in 1..H |-> [j \in 1..W |->
            CScale(Frac(1, H * W), KernelSum(z, H, W, i - 1, j - 1))]])

\* a wrap into the interval (-pi, pi]
wrap_phase_upper(ph) == 2 - ((2 - ph) % 4)

\* (ph + np.pi) % (2*np.pi) - np.pi, in quarter turns
wrap_phase(ph) == ((ph + 2) % 4) - 2

\* line 77: np.angle(np.fft.fft2(x)) of a channel
OriginalPhase(xc) ==
    LET F == fft2(xc)
    IN  Array2([u \in 1..Height(xc) |-> [v \in 1..Width(xc) |-> CAngle(F[u][v])]])

\* a mix with the two weights exchanged
MixedPhaseSwapped(xc, alpha, phi) ==
    LET phi_orig == OriginalPhase(xc)
    IN  Array2([u \in 1..Height(xc) |-> [v \in 1..Width(xc) |->
            wrap_phase((1 - alpha) * phi_orig[u][v] + alpha * phi[u][v])]])

\* line 80: phi_mix = wrap_phase(alpha * phi_orig + (1.0 - alpha) * phi_rand)
MixedPhase(xc, alpha, phi) ==
    LET phi_orig == OriginalPhase(xc)
    IN  Array2([u \in 1..Height(xc) |-> [v \in 1..Width(xc) |->
            wrap_phase(alpha * phi_orig[u][v] + (1 - alpha) * phi[u][v])]])

\* lines 74-83: one pass of the channel loop, for channel xc and field phi
ScrambleChannel(xc, alpha, phi) ==
    LET H == Height(xc)
        W == Width(xc)
        F == fft2(xc)
        A == Array2([u \in 1..H |-> [v \in 1..W |-> CAbs(F[u][v])]])
        phi_mix == MixedPhase(xc, alpha, phi)
        rec == ifft2(Array2([u \in 1..H |-> [v \in 1..W |->
                      CScale(A[u][v], CExp(phi_mix[u][v]))]]))
    IN  Array2([i \in 1..H |-> [j \in 1..W |-> rec[i][j][1]]])

\* np.abs(np.fft.fft2(x)) of a channel: its amplitude spectrum
Amplitude(xc) ==
    LET F == fft2(xc)
    IN  Array2([u \in 1..Height(xc) |-> [v \in 1..Width(xc) |-> CAbs(F[u][v])]])

\* a loop that draws a field of its own in every pass
PhaseFieldDrawnPerPass(c, g, H, W) ==
    UniformField([g EXCEPT !.pos = @ + (c - 1) * H * W], H, W)

\* The field that pass c of the channel loop mixes in: phi_rand, drawn once
\* before the loop (line 70) and read by every pass (line 80).
PhaseFieldOfPass(c, g, H, W) == UniformField(g, H, W)

\* The generator when phase_scramble_color_shared returns.
GeneratorAfterScramble(g, H, W) == AfterUniform(g, H, W)

\* phase_scramble_color_shared(img01, alpha, rng): what it returns (out),
\* the generator it leaves, and the field each pass of the loop used.
\* A caller that passes rng=None gets a fresh generator: any generator g.
phase_scramble_color_shared(img01, alpha, g) ==
    LET sh == Shape(img01)
        H == sh[1]
        W == sh[2]
        C == sh[3]
    IN  IF C # 3
        THEN [status |-> "AssertionError", out |-> NoArray, rng |-> g,
              phi |-> <<>>]
        ELSE [status |-> "ok",
              out |-> Array1([c \in 1..C |->
                         ScrambleChannel(img01[c], alpha, PhaseFieldOfPass(c, g, H, W))]),
              rng |-> GeneratorAfterScramble(g, H, W),
              phi |-> Array1([c \in 1..3 |-> PhaseFieldOfPass(c, g, H, W)])]

(***************************************************************************)
(* Files.  A name is its class prefix and the characters (ASCII codes)     *)
(* between "face_" or "car_" and ".jpg".  A file is of one kind:           *)
(*   ok          Image.verify passes, it loads, its output can be written  *)
(*   corrupt     Image.open fails: is_image_ok is False                    *)
(*   truncated   Image.verify passes, Image.convert raises (OSError)       *)
(*   unwritable  it loads, Image.save of its output raises                 *)
(***************************************************************************)
ClassChars(cls) == IF cls = "face" THEN <<102, 97, 99, 101>> ELSE <<99, 97, 114>>

Underscore == 95

DotJpg == <<46, 106, 112, 103>>

\* "face_1.jpg", "face_a_1.jpg", "car_1.jpg", "car_12.jpg"
FileNames ==
    { [cls |-> "face", suffix |-> <<49>>],
      [cls |-> "face", suffix |-> <<97, 95, 49>>],
      [cls |-> "car", suffix |-> <<49>>],
      [cls |-> "car", suffix |-> <<49, 50>>] }

\* os.path.splitext(os.path.basename(p))[0]
Stem(name) == ClassChars(name.cls) \o <<Underscore>> \o name.suffix

BaseName(name) == Stem(name) \o DotJpg

RECURSIVE LexLess(_, _)
LexLess(a, b) ==
    IF Len(b) = 0 THEN FALSE
    ELSE IF Len(a) = 0 THEN TRUE
    ELSE IF a[1] # b[1] THEN a[1] < b[1]
    ELSE LexLess(Tail(a), Tail(b))

\* Python's order of two paths of IN_DIR
PathLess(a, b) == LexLess(BaseName(a), BaseName(b))

\* the orders in which a set of names can be listed
Orders(S) == {q \in [1..Cardinality(S) -> S] : \A i, j \in DOMAIN q : i # j => q[i] # q[j]}

\* glob.glob(os.path.join(IN_DIR, "<cls>_*.jpg")): the matching names, in
\* an order the file system chooses
GlobResults(d, cls) == Orders({n \in DOMAIN d : n.cls = cls})

\* the paths left in the order glob listed them
AsListed(paths) == paths

\* sorted(paths)
sorted(paths) ==
    LET S == SeqRange(paths)
    IN  [r \in 1..Len(paths) |->
            CHOOSE n \in S : Cardinality({m \in S : PathLess(m, n)}) + 1 = r]

is_image_ok(d, p) == d[p].kind # "corrupt"

\* [p for p in paths if is_image_ok(p)]
RECURSIVE FilterOk(_, _)
FilterOk(d, paths) ==
    IF Len(paths) = 0 THEN <<>>
    ELSE IF is_image_ok(d, Head(paths))
         THEN <<Head(paths)>> \o FilterOk(d, Tail(paths))
         ELSE FilterOk(d, Tail(paths))

\* what load_rgb01(p) does: returns the array or raises
LoadResult(d, p) ==
    CASE d[p].kind = "corrupt" -> "UnidentifiedImageError"
      [] d[p].kind = "truncated" -> "OSError"
      [] OTHER -> "array"

\* whether Image.save in save_rgb01 succeeds for the output of input p
SaveSucceeds(d, p) == d[p].kind # "unwritable"

IntImage(img) == Array1([c \in DOMAIN img |-> IntChannel(img[c])])

\* stem.split('_')[-1]: the characters after the last underscore
RECURSIVE LastField(_)
LastField(chars) ==
    IF Len(chars) = 0 THEN <<>>
    ELSE IF chars[Len(chars)] = Underscore THEN <<>>
    ELSE LastField(SubSeq(chars, 1, Len(chars) - 1)) \o <<chars[Len(chars)]>>

\* "scrambled_"
ScrambledPrefix == <<115, 99, 114, 97, 109, 98, 108, 101, 100, 95>>

\* a name built with the face prefix whatever the label
OutNameFaceOnly(p, lab) ==
    ScrambledPrefix \o ClassChars("face") \o <<Underscore>>
        \o LastField(Stem(p)) \o DotJpg

\* lines 112-114: "scrambled_face_<idx>.jpg" or "scrambled_car_<idx>.jpg"
OutName(p, lab) ==
    ScrambledPrefix \o (IF lab = "face" THEN ClassChars("face") ELSE ClassChars("car"))
        \o <<Underscore>> \o LastField(Stem(p)) \o DotJpg

\* np.clip(arr, lo, hi)
ClipValue(v, lo, hi) == IF FLess(v, lo) THEN lo ELSE IF FLess(hi, v) THEN hi ELSE v

Clip(img, lo, hi) ==
    Array3([c \in DOMAIN img |-> [i \in DOMAIN img[c] |-> [j \in DOMAIN img[c][i] |->
        ClipValue(img[c][i][j], lo, hi)]]])

\* lines 106-108: every channel matched to the original channel
MatchImage(xscr, orig) == Array1([c \in 1..3 |-> hist_match_channel(xscr[c], orig[c])])

\* a batch that hands the scrambled array to the writer as it is
Unmatched(xscr, orig) == xscr

\* lines 106-111: the image batch hands to save_rgb01
MatchedAndClipped(xscr, orig) == Clip(MatchImage(xscr, orig), Zero, FromInt(White))

\* save_rgb01: the uint8 array that Image.fromarray receives
ToUint8(arr) ==
    LET a == Clip(arr, Zero, FromInt(White))
    IN  Array3([c \in DOMAIN a |-> [i \in DOMAIN a[c] |-> [j \in DOMAIN a[c][i] |->
            FFloor(a[c][i][j]) % 256]]])

(***************************************************************************)
(* The script (lines 119-141) and batch (lines 89-116).                    *)
(***************************************************************************)
\* Images of the files of IN_DIR, as 8-bit levels: a 1 x 2 colour image
\* and a 2 x 2 gray image.
Catalogue ==
    { << <<<<0, White>>>>, <<<<White, 1>>>>, <<<<1, 1>>>> >>,
      << <<<<0, 1>>, <<White, 0>>>>, <<<<0, 1>>, <<White, 0>>>>,
         <<<<0, 1>>, <<White, 0>>>> >> }

FileStates ==
    { [kind |-> "corrupt", img |-> NoArray], [kind |-> "truncated", img |-> NoArray] }
    \cup { [kind |-> kd, img |-> IntImage(im)] :
              kd \in {"ok", "unwritable"}, im \in Catalogue }

Directories ==
    UNION { [S -> FileStates] :
              S \in {T \in SUBSET FileNames : Cardinality(T) <= MaxFiles} }

EmptyMap == <<>>

MapPut(m, key, v) == [n \in DOMAIN m \cup {key} |-> IF n = key THEN v ELSE m[n]]

HistIdle == src = NoArray /\ tmpl = NoArray /\ matched = NoArray

\* build_trials is not running
TrialsIdle ==
    shuffled = <<>> /\ pos_i = 0 /\ pass_num = 0 /\ violations_fixed = 0 /\ tpc = "none"

\* the bundle pricing main is not running
PenaltyIdle == bundles_bought = 0 /\ penalty = 0 /\ penalty_desc = "none"

\* the flanker task is not running
FlankerIdle ==
    /\ fpc = "none" /\ total_trials = 0 /\ cum_errors = 0 /\ block_idx = 0
    /\ block_errors = 0 /\ t_idx = 0 /\ plan = 0 /\ msg = "none"

\* no call of calculate_prices is modelled
PriceIdle == bundle = <<>> /\ condition = "none" /\ priced = <<>>

\* no call of gen_block_trials is modelled
BlockIdle == block_size = 0 /\ gpc = "none" /\ block_trials = <<>>

OtherIdle == TrialsIdle /\ PenaltyIdle /\ FlankerIdle /\ PriceIdle /\ BlockIdle

\* the state in which the script starts
ScriptStart ==
    /\ pc = "glob"
    /\ all_faces = <<>> /\ all_cars = <<>> /\ faces = <<>> /\ cars = <<>>
    /\ rng = NoRng /\ label = "none" /\ k = 0
    /\ x = NoArray /\ x_scr = NoArray /\ x_s = NoArray /\ scr = NoCall
    /\ outputs = EmptyMap /\ log = <<>>
    /\ fieldOf = EmptyMap /\ loadCalls = {} /\ events = <<>>
    /\ alpha0 = ALPHA

Init ==
    /\ dir \in Directories
    /\ ScriptStart
    /\ run = 1 /\ firstOutputs = EmptyMap
    /\ HistIdle
    /\ OtherIdle

\* a script that hands the car list to the first batch call
PathsSwapped == IF label = "face" THEN cars ELSE faces

\* the list the running batch call iterates over: line 138 hands faces to
\* the call labelled "face", line 139 hands cars to the call labelled "car"
Paths == IF label = "face" THEN faces ELSE cars

\* lines 120-121
Glob ==
    /\ pc = "glob"
    /\ \E gf \in GlobResults(dir, "face"), gc \in GlobResults(dir, "car") :
          /\ all_faces' = sorted(gf)
          /\ all_cars' = sorted(gc)
    /\ pc' = "filter"
    /\ UNCHANGED <<dir, faces, cars, rng, label, k, x, x_scr, x_s, scr, outputs,
                   log, fieldOf, loadCalls, run, firstOutputs, alpha0, events, histVars,
                   otherVars>>

\* lines 122-123 (the report of the files left out, lines 125-129, is
\* commented out: nothing is printed for them)
Filter ==
    /\ pc = "filter"
    /\ faces' = FilterOk(dir, all_faces)
    /\ cars' = FilterOk(dir, all_cars)
    /\ pc' = "check"
    /\ UNCHANGED <<dir, all_faces, all_cars, rng, label, k, x, x_scr, x_s, scr,
                   outputs, log, fieldOf, loadCalls, run, firstOutputs, alpha0, events, histVars,
                   otherVars>>

\* a check that aborts when either class is empty
NoValidInputsEither(fs, cs) == Len(fs) = 0 \/ Len(cs) = 0

\* line 131: whether the script raises SystemExit
NoValidInputs(fs, cs) == Len(fs) = 0 /\ Len(cs) = 0

\* lines 131-135
CheckInputs ==
    /\ pc = "check"
    /\ IF NoValidInputs(faces, cars)
       THEN /\ pc' = "aborted"
            /\ log' = Append(log, [tag |-> "SystemExit"])
       ELSE /\ pc' = "mkrng"
            /\ log' = Append(log, [tag |-> "Input", faces |-> Len(faces),
                                   cars |-> Len(cars)])
    /\ UNCHANGED <<dir, all_faces, all_cars, faces, cars, rng, label, k, x, x_scr,
                   x_s, scr, outputs, fieldOf, loadCalls, run, firstOutputs, alpha0, events, histVars,
                   otherVars>>

\* lines 137-138: the generator is created and batch(faces, "face", rng) called
MakeRng ==
    /\ pc = "mkrng"
    /\ rng' = default_rng(RANDOM_SEED)
    /\ label' = "face"
    /\ k' = 1
    /\ pc' = "load"
    /\ UNCHANGED <<dir, all_faces, all_cars, faces, cars, x, x_scr, x_s, scr,
                   outputs, log, fieldOf, loadCalls, run, firstOutputs, alpha0, events, histVars,
                   otherVars>>

\* a skip that takes a draw from the generator before going on
GeneratorAfterSkipDrawn(g) == AfterUniform(g, 1, 1)

\* lines 95-100: the except clauses print and continue; line 103 is not
\* reached, the generator is left as it was
GeneratorAfterSkip(g) == g

\* lines 90-100: the next path is loaded, or skipped with a line printed
BatchLoad ==
    /\ pc = "load"
    /\ k <= Len(Paths)
    /\ LET p == Paths[k]
           r == LoadResult(dir, p)
       IN  /\ loadCalls' = loadCalls \cup {p}
           /\ IF r = "array"
              THEN /\ x' = dir[p].img
                   /\ pc' = "scramble"
                   /\ events' = Append(events, [ev |-> "load", path |-> p])
                   /\ UNCHANGED <<k, log>>
              ELSE /\ log' = Append(log, [tag |-> "SKIP", base |-> BaseName(p),
                                          why |-> IF r = "UnidentifiedImageError"
                                                  THEN "unreadable" ELSE r])
                   /\ k' = k + 1
                   /\ events' = events \o <<[ev |-> "load", path |-> p],
                                             [ev |-> "skip", path |-> p]>>
                   /\ UNCHANGED <<x, pc>>
           /\ rng' = IF r = "array" THEN rng ELSE GeneratorAfterSkip(rng)
    /\ UNCHANGED <<dir, all_faces, all_cars, faces, cars, label, x_scr, x_s,
                   scr, outputs, fieldOf, run, firstOutputs, alpha0, histVars,
                   otherVars>>

\* line 103
BatchScramble ==
    /\ pc = "scramble"
    /\ \E r \in {phase_scramble_color_shared(x, alpha0, rng)} :
          /\ scr' = r
          /\ rng' = r.rng
          /\ IF r.status = "ok"
             THEN /\ x_scr' = r.out
                  /\ pc' = "match"
                  /\ fieldOf' = IF label = "none" THEN fieldOf
                                ELSE MapPut(fieldOf, Paths[k], r.rng.draws)
             ELSE /\ pc' = "raised"
                  /\ UNCHANGED <<x_scr, fieldOf>>
    /\ events' = IF label = "none" THEN events
                 ELSE Append(events, [ev |-> "scramble", path |-> Paths[k]])
    /\ UNCHANGED <<dir, all_faces, all_cars, faces, cars, label, k, x, x_s,
                   outputs, log, loadCalls, run, firstOutputs, alpha0, histVars,
                   otherVars>>

\* lines 106-111
BatchMatch ==
    /\ pc = "match"
    /\ x_s' = MatchedAndClipped(x_scr, x)
    /\ pc' = "save"
    /\ events' = IF label = "none" THEN events
                 ELSE Append(events, [ev |-> "match", path |-> Paths[k]])
    /\ UNCHANGED <<dir, all_faces, all_cars, faces, cars, rng, label, k, x, x_scr,
                   scr, outputs, log, fieldOf, loadCalls, run, firstOutputs, alpha0, histVars,
                   otherVars>>

\* a batch that catches the exception of save_rgb01 and goes on
SaveErrorSwallowed(kk) == [pc |-> "load", k |-> kk + 1]

\* Image.save raises in save_rgb01 (line 38) for item kk: nothing catches
\* the exception, it leaves batch and ends the script
SaveErrorOutcome(kk) == [pc |-> "raised", k |-> kk]

\* lines 112-116
BatchSave ==
    /\ pc = "save"
    /\ label # "none"
    /\ LET p == Paths[k]
           out_name == OutName(p, label)
       IN  IF SaveSucceeds(dir, p)
           THEN /\ outputs' = MapPut(outputs, out_name, ToUint8(x_s))
                /\ log' = Append(log, [tag |-> "OK", base |-> BaseName(p),
                                       out |-> out_name])
                /\ k' = k + 1
                /\ pc' = "load"
           ELSE /\ pc' = SaveErrorOutcome(k).pc
                /\ k' = SaveErrorOutcome(k).k
                /\ UNCHANGED <<outputs, log>>
    /\ events' = Append(events, [ev |-> "save", path |-> Paths[k]])
    /\ UNCHANGED <<dir, all_faces, all_cars, faces, cars, rng, label, x, x_scr,
                   x_s, scr, fieldOf, loadCalls, run, firstOutputs, alpha0, histVars,
                   otherVars>>

\* the loop of batch ends: line 139 calls batch(cars, "car", rng), or
\* line 141 prints Done
BatchReturn ==
    /\ pc = "load"
    /\ k > Len(Paths)
    /\ IF label = "face"
       THEN /\ label' = "car"
            /\ k' = 1
            /\ UNCHANGED <<pc, log>>
       ELSE /\ pc' = "done"
            /\ log' = Append(log, [tag |-> "Done"])
            /\ UNCHANGED <<label, k>>
    /\ x' = NoArray /\ x_scr' = NoArray /\ x_s' = NoArray
    /\ UNCHANGED <<dir, all_faces, all_cars, faces, cars, rng, scr, outputs,
                   fieldOf, loadCalls, run, firstOutputs, alpha0, events, histVars,
                   otherVars>>

Terminated == pc \in {"done", "aborted", "raised"}

Next ==
    \/ Glob
    \/ Filter
    \/ CheckInputs
    \/ MakeRng
    \/ BatchLoad
    \/ BatchScramble
    \/ BatchMatch
    \/ BatchSave
    \/ BatchReturn

Spec == Init /\ [][Next]_vars

(***************************************************************************)
(* The script run twice over the same directory, with a fresh OUT_DIR the  *)
(* second time: what the two runs wrote can be compared.                   *)
(***************************************************************************)
RunAgain ==
    /\ Terminated
    /\ run = 1
    /\ run' = 2
    /\ firstOutputs' = outputs
    /\ pc' = "glob"
    /\ all_faces' = <<>> /\ all_cars' = <<>> /\ faces' = <<>> /\ cars' = <<>>
    /\ rng' = NoRng /\ label' = "none" /\ k' = 0
    /\ x' = NoArray /\ x_scr' = NoArray /\ x_s' = NoArray /\ scr' = NoCall
    /\ outputs' = EmptyMap /\ log' = <<>>
    /\ fieldOf' = EmptyMap /\ loadCalls' = {} /\ events' = <<>>
    /\ UNCHANGED <<dir, alpha0, histVars,
                   otherVars>>

NextTwoRuns ==
    \/ Glob
    \/ Filter
    \/ CheckInputs
    \/ MakeRng
    \/ BatchLoad
    \/ BatchScramble
    \/ BatchMatch
    \/ BatchSave
    \/ BatchReturn
    \/ RunAgain

SpecTwoRuns == Init /\ [][NextTwoRuns]_vars

(***************************************************************************)
(* The script run over a directory, and then over the same directory       *)
(* without one of the files that batch skipped, with a fresh OUT_DIR.      *)
(***************************************************************************)
\* the files for which load_rgb01 raised in batch (lines 93-100)
SkippedInBatch == {p \in loadCalls : LoadResult(dir, p) # "array"}

\* the directory d without the file f
Without(d, f) == [p \in DOMAIN d \ {f} |-> d[p]]

RunWithout ==
    /\ Terminated
    /\ run = 1
    /\ \E f \in SkippedInBatch : dir' = Without(dir, f)
    /\ run' = 2
    /\ firstOutputs' = outputs
    /\ pc' = "glob"
    /\ all_faces' = <<>> /\ all_cars' = <<>> /\ faces' = <<>> /\ cars' = <<>>
    /\ rng' = NoRng /\ label' = "none" /\ k' = 0
    /\ x' = NoArray /\ x_scr' = NoArray /\ x_s' = NoArray /\ scr' = NoCall
    /\ outputs' = EmptyMap /\ log' = <<>>
    /\ fieldOf' = EmptyMap /\ loadCalls' = {} /\ events' = <<>>
    /\ UNCHANGED <<alpha0, histVars,
                   otherVars>>

NextAbsent ==
    \/ Glob
    \/ Filter
    \/ CheckInputs
    \/ MakeRng
    \/ BatchLoad
    \/ BatchScramble
    \/ BatchMatch
    \/ BatchSave
    \/ BatchReturn
    \/ RunWithout

SpecAbsent == Init /\ [][NextAbsent]_vars

(***************************************************************************)
(* hist_match_channel called on its own.                                   *)
(***************************************************************************)
NoScript ==
    /\ dir = <<>>
    /\ pc = "none"
    /\ all_faces = <<>> /\ all_cars = <<>> /\ faces = <<>> /\ cars = <<>>
    /\ rng = NoRng /\ label = "none" /\ k = 0
    /\ x = NoArray /\ x_scr = NoArray /\ x_s = NoArray /\ scr = NoCall
    /\ outputs = EmptyMap /\ log = <<>>
    /\ fieldOf = EmptyMap /\ loadCalls = {} /\ events = <<>>
    /\ run = 1 /\ firstOutputs = EmptyMap
    /\ alpha0 = ALPHA

InitHist == NoScript /\ HistInit /\ OtherIdle

NextHist == HistCall

SpecHist == InitHist /\ [][NextHist]_vars

(***************************************************************************)
(* The stages of batch for one image (lines 103-111) on any image: every   *)
(* one-pixel colour image, every two-pixel image with equal red and blue   *)
(* channels, every gray 2 x 2 image, and arrays with 1 or 4 channels, at   *)
(* any position up to MaxPos of the generator's stream and with alpha 0    *)
(* or 1.                                                                   *)
(***************************************************************************)
Gray(ch) == <<ch, ch, ch>>

ImageUniverse ==
    [1..3 -> Channels(1, 1, PixLevels)]
    \cup UNION { { <<r, g, r>> : r \in Channels(sh[1], sh[2], PixLevels),
                                g \in Channels(sh[1], sh[2], PixLevels) } :
                   sh \in {<<1, 2>>, <<2, 1>>} }
    \cup { Gray(ch) : ch \in Channels(2, 2, PixLevels) }
    \cup [1..1 -> Channels(1, 2, PixLevels)]
    \cup [1..4 -> Channels(1, 1, PixLevels)]

InitImage ==
    /\ x \in {IntImage(im) : im \in ImageUniverse}
    /\ alpha0 \in {0, 1}
    /\ rng \in {[default_rng(RANDOM_SEED) EXCEPT !.pos = p] : p \in 0..MaxPos}
    /\ pc = "scramble"
    /\ dir = <<>>
    /\ all_faces = <<>> /\ all_cars = <<>> /\ faces = <<>> /\ cars = <<>>
    /\ label = "none" /\ k = 0
    /\ x_scr = NoArray /\ x_s = NoArray /\ scr = NoCall
    /\ outputs = EmptyMap /\ log = <<>>
    /\ fieldOf = EmptyMap /\ loadCalls = {} /\ events = <<>>
    /\ run = 1 /\ firstOutputs = EmptyMap
    /\ HistIdle
    /\ OtherIdle

NextImage ==
    \/ BatchScramble
    \/ BatchMatch

SpecImage == InitImage /\ [][NextImage]_vars

(***************************************************************************)
(* build_trials of brand_associations/bundle_pricing_erp.py (lines         *)
(* 360-478; bundle_pricing/bundle_pricing.py holds the same functions).    *)
(* A trial is [bundle_id, condition]; the prices and image paths of a      *)
(* trial are not read by the shuffle.  List positions are 1-based: the     *)
(* position i of the source is i + 1 here.                                 *)
(***************************************************************************)
\* Number of bundles of the model (the source lists 45).
N_BUNDLES == 4

\* Number of repair passes of the model (the source's default is 50; a
\* pass that swaps nothing leaves the list as it was, so every later pass
\* repeats it).
MaxRepairPasses == 3

\* The price conditions of the model: two of the source's three.
PRICE_CONDITIONS == <<"NP", "LP">>

\* ids of BUNDLES
BundleIds == 1..N_BUNDLES

N_TRIALS_TOTAL == N_BUNDLES * Len(PRICE_CONDITIONS)

\* lines 376-395: one trial per bundle and condition, bundle by bundle
all_trials ==
    Array1([n \in 1..N_TRIALS_TOTAL |->
        [bundle_id |-> ((n - 1) \div Len(PRICE_CONDITIONS)) + 1,
         condition |-> PRICE_CONDITIONS[((n - 1) % Len(PRICE_CONDITIONS)) + 1]]])

\* lines 397-410
has_violation_at(trials, i) ==
    /\ i >= 1 /\ i <= Len(trials)
    /\ \E offset \in {-2, -1, 1, 2} :
          LET j == i + offset
          IN  /\ 1 <= j /\ j <= Len(trials) /\ j # i
              /\ trials[j].bundle_id = trials[i].bundle_id
              /\ AbsInt(offset) <= 2

\* an assignment that copies position j to position i and loses trials[i]
SwapOverwrite(trials, i, j) == [trials EXCEPT ![i] = trials[j]]

\* trials[i], trials[j] = trials[j], trials[i]
Swap(trials, i, j) == [trials EXCEPT ![i] = trials[j], ![j] = trials[i]]

\* lines 425-435: whether the list with i and j exchanged has no violation
\* at the positions around i and j
SwapIsOk(trials, i, j) ==
    LET t == Swap(trials, i, j)
    IN  \A pos \in {i - 2, i - 1, i, i + 1, i + 2, j - 2, j - 1, j, j + 1, j + 2} :
           (1 <= pos /\ pos <= Len(t)) => ~has_violation_at(t, pos)

\* find_valid_swap returns None
None == 0

\* lines 412-443: the values find_valid_swap(trials, i) can return.  The
\* candidates are tried in a random order and the first good one is
\* returned: any good one can be, and None when there is none.
find_valid_swap(trials, i) ==
    LET good == {j \in 1..Len(trials) : AbsInt(i - j) > 2 /\ SwapIsOk(trials, i, j)}
    IN  IF good = {} THEN {None} ELSE good

\* the place of position p among the positions of a that hold a[p]
OccurrenceIn(a, p) == Cardinality({q \in 1..p : a[q] = a[p]})

\* the ids that can follow the arrangement a: an id that has occurrences
\* left, and is one already placed or the smallest one not yet placed
NextIds(a, ids) ==
    {b \in ids :
        /\ Cardinality({q \in DOMAIN a : a[q] = b}) < Len(PRICE_CONDITIONS)
        /\ \A c \in ids : c < b => \E q \in DOMAIN a : a[q] = c}

\* The arrangements of bundle ids of length n in which the bundles make
\* their first appearance in the order of their ids.  The shuffle reads
\* ids only to compare them, so every arrangement is one of these with the
\* bundles renamed.
RECURSIVE Arrangements(_, _)
Arrangements(n, ids) ==
    IF n = 0 THEN {<<>>}
    ELSE UNION {{Append(a, b) : b \in NextIds(a, ids)} : a \in Arrangements(n - 1, ids)}

\* The results of random.shuffle (line 448) the model draws for a list of
\* trials: the arrangements above of its bundles, the trials of one bundle
\* in the order of their construction.
ShufflesOf(trials) ==
    {Array1([q \in 1..Len(trials) |->
                [bundle_id |-> a[q],
                 condition |-> PRICE_CONDITIONS[OccurrenceIn(a, q)]]]) :
        a \in Arrangements(Len(trials), {trials[q].bundle_id : q \in DOMAIN trials})}

\* the shuffles drawn for all_trials
InitialShuffles == ShufflesOf(all_trials)

\* lines 446-448
ShuffleTrials ==
    /\ tpc = "shuffle"
    /\ shuffled' \in ShufflesOf(shuffled)
    /\ pass_num' = 0
    /\ violations_fixed' = 0
    /\ pos_i' = 1
    /\ tpc' = "repair"
    /\ UNCHANGED <<runVars, histVars, priceVars, blockVars, penaltyVars, flankerVars>>

\* lines 453-458: one turn of the inner loop
RepairStep ==
    /\ tpc = "repair"
    /\ pos_i <= Len(shuffled)
    /\ IF has_violation_at(shuffled, pos_i)
       THEN \E j \in find_valid_swap(shuffled, pos_i) :
               IF j # None
               THEN /\ shuffled' = Swap(shuffled, pos_i, j)
                    /\ violations_fixed' = violations_fixed + 1
               ELSE UNCHANGED <<shuffled, violations_fixed>>
       ELSE UNCHANGED <<shuffled, violations_fixed>>
    /\ pos_i' = pos_i + 1
    /\ UNCHANGED <<pass_num, tpc, runVars, histVars, priceVars, blockVars, penaltyVars, flankerVars>>

\* lines 460-465: the check at the end of a pass
all_ok(trials) == \A i \in 1..Len(trials) : ~has_violation_at(trials, i)

\* lines 467-469: the pass ended with no violation, the list is returned
PassEndOk ==
    /\ tpc = "repair"
    /\ pos_i > Len(shuffled)
    /\ all_ok(shuffled)
    /\ tpc' = "returned"
    /\ UNCHANGED <<shuffled, pos_i, pass_num, violations_fixed, runVars, histVars, priceVars, blockVars,
                   penaltyVars, flankerVars>>

\* a loop over the passes that has no end
PassesLeftAlways(n) == TRUE

\* line 450: for pass_num in range(max_repair_passes), after pass n
PassesLeft(n) == n + 1 < MaxRepairPasses

\* line 450: the next pass begins
PassEndRetry ==
    /\ tpc = "repair"
    /\ pos_i > Len(shuffled)
    /\ ~all_ok(shuffled)
    /\ PassesLeft(pass_num)
    /\ pass_num' = pass_num + 1
    /\ violations_fixed' = 0
    /\ pos_i' = 1
    /\ UNCHANGED <<shuffled, tpc, runVars, histVars, priceVars, blockVars, penaltyVars, flankerVars>>

\* lines 471-472: the passes are used up, the list is returned with a warning
PassEndGiveUp ==
    /\ tpc = "repair"
    /\ pos_i > Len(shuffled)
    /\ ~all_ok(shuffled)
    /\ ~PassesLeft(pass_num)
    /\ tpc' = "warned"
    /\ UNCHANGED <<shuffled, pos_i, pass_num, violations_fixed, runVars, histVars, priceVars, blockVars,
                   penaltyVars, flankerVars>>

\* line 475: shuffle_with_constraint(all_trials) is called
InitTrials ==
    /\ NoScript /\ HistIdle /\ PriceIdle /\ BlockIdle
    /\ PenaltyIdle /\ FlankerIdle
    /\ tpc = "shuffle"
    /\ shuffled = all_trials
    /\ pos_i = 0 /\ pass_num = 0 /\ violations_fixed = 0

NextTrials ==
    \/ ShuffleTrials
    \/ RepairStep
    \/ PassEndOk
    \/ PassEndRetry
    \/ PassEndGiveUp

SpecTrials == InitTrials /\ [][NextTrials]_vars

\* the trials of the first nb bundles: a list handed to
\* shuffle_with_constraint
TrialsOfBundles(nb) == SubSeq(all_trials, 1, nb * Len(PRICE_CONDITIONS))

\* shuffle_with_constraint is called on the trials of 1 to N_BUNDLES bundles
InitRepair ==
    /\ NoScript /\ HistIdle /\ PriceIdle /\ BlockIdle
    /\ PenaltyIdle /\ FlankerIdle
    /\ tpc = "shuffle"
    /\ shuffled \in {TrialsOfBundles(nb) : nb \in 1..N_BUNDLES}
    /\ pos_i = 0 /\ pass_num = 0 /\ violations_fixed = 0

\* The function runs on one thread: while a step of it is possible, a step
\* is taken.
SpecRepair ==
    /\ InitRepair
    /\ [][NextTrials]_vars
    /\ WF_vars(ShuffleTrials)
    /\ WF_vars(RepairStep)
    /\ WF_vars(PassEndOk)
    /\ WF_vars(PassEndRetry)
    /\ WF_vars(PassEndGiveUp)

\* build_trials has returned shuffled_trials
TrialsReturned == tpc \in {"returned", "warned"}

(***************************************************************************)
(* The penalty of the bundle pricing task (bundle_pricing_erp.py): the     *)
(* thresholds of lines 55-61, calculate_penalty (lines 513-518), the rule  *)
(* of the instructions (lines 592-595) and the end screen (lines 836-846). *)
(* Amounts are whole lari.                                                 *)
(***************************************************************************)
\* Largest number of bundles bought that the model draws.
MaxBought == 45

\* float('inf')
Infinity == [finite |-> FALSE, value |-> 0]

Finite(n) == [finite |-> TRUE, value |-> n]

\* (threshold, penalty) pairs
PENALTY_THRESHOLDS ==
    << <<Finite(20), 20>>, <<Finite(25), 10>>, <<Finite(30), 5>>, <<Infinity, 0>> >>

\* a comparison that also takes the threshold itself
AtOrBelow(b, threshold) == (~threshold.finite) \/ b <= threshold.value

\* line 516: bundles_bought < threshold
Below(b, threshold) == (~threshold.finite) \/ b < threshold.value

\* lines 515-518: the loop over the thresholds from entry n on
RECURSIVE PenaltyFrom(_, _)
PenaltyFrom(b, n) ==
    IF n > Len(PENALTY_THRESHOLDS) THEN 0
    ELSE IF Below(b, PENALTY_THRESHOLDS[n][1]) THEN PENALTY_THRESHOLDS[n][2]
    ELSE PenaltyFrom(b, n + 1)

calculate_penalty(b) == PenaltyFrom(b, 1)

\* lines 592-595: the penalty the instructions announce for b bundles
InstructedPenalty(b) ==
    IF b < 20 THEN 20
    ELSE IF b >= 20 /\ b <= 24 THEN 10
    ELSE IF b >= 25 /\ b <= 29 THEN 5
    ELSE 0

\* lines 839-846: the band of the end screen
PenaltyBand(b) ==
    IF b < 20 THEN "< 20"
    ELSE IF b < 25 THEN "20-24"
    ELSE IF b < 30 THEN "25-29"
    ELSE ">= 30"

\* the trial loop has ended with some number of bundles bought
InitPenalty ==
    /\ NoScript /\ HistIdle /\ PriceIdle /\ BlockIdle
    /\ TrialsIdle /\ FlankerIdle
    /\ bundles_bought \in 0..MaxBought
    /\ penalty = 0
    /\ penalty_desc = "pending"

\* line 836
CalculatePenalty ==
    /\ penalty_desc = "pending"
    /\ penalty' = calculate_penalty(bundles_bought)
    /\ penalty_desc' = "computed"
    /\ UNCHANGED <<bundles_bought, runVars, histVars, priceVars, blockVars, trialVars, flankerVars>>

\* lines 839-846
EndScreen ==
    /\ penalty_desc = "computed"
    /\ penalty_desc' = PenaltyBand(bundles_bought)
    /\ UNCHANGED <<bundles_bought, penalty, runVars, histVars, priceVars, blockVars, trialVars,
                   flankerVars>>

NextPenalty ==
    \/ CalculatePenalty
    \/ EndScreen

SpecPenalty == InitPenalty /\ [][NextPenalty]_vars

(***************************************************************************)
(* The price frames of the bundle pricing tasks: calculate_prices          *)
(* (bundle_pricing_erp.py lines 319-357; bundle_pricing.py lines 316-354   *)
(* hold the same text).  Prices are exact rationals in lari; round(v, 2)   *)
(* rounds to whole tetri, a half to the even neighbour.                    *)
(***************************************************************************)
\* Base prices of 1 to MaxTetri tetri are drawn, next to prices of the
\* size of the BUNDLES table.
MaxTetri == 6

LOW_TOKEN_PRICE == Frac(1, 10)

DISCOUNT_PERCENT == 20

\* the conditions named by the docstring, lines 323-325
KnownConditions == {"NP", "ZP", "LP"}

\* no price: the call raised and returned nothing
NoPrice == <<0, 0>>

\* round(v, 2), line 357
Round2(v) ==
    LET c    == FMul(v, FromInt(100))
        low  == FFloor(c)
        rest == FSub(c, FromInt(low))
        half == Frac(1, 2)
    IN  IF FLess(rest, half) THEN Frac(low, 100)
        ELSE IF FLess(half, rest) THEN Frac(low + 1, 100)
        ELSE IF low % 2 = 0 THEN Frac(low, 100)
        ELSE Frac(low + 1, 100)

\* a NP total that leaves the discount out
NpTotalUndiscounted(base_total) == base_total

\* lines 334-335: discount = base_total * (DISCOUNT_PERCENT / 100.0);
\* total = base_total - discount
NpTotal(base_total) ==
    LET discount == FMul(base_total, Frac(DISCOUNT_PERCENT, 100))
    IN  FSub(base_total, discount)

\* the factor (1 - DISCOUNT_PERCENT / 100.0) of lines 337, 338, 342, 349
KeptShare == FSub(FromInt(1), Frac(DISCOUNT_PERCENT, 100))

\* the tuple returned at line 357
Prices(focal_price, tiein_price, total) ==
    [status |-> "returned",
     focal  |-> Round2(focal_price),
     tiein  |-> Round2(tiein_price),
     total  |-> Round2(total)]

\* line 355: raise ValueError
Rejected == [status |-> "ValueError", focal |-> NoPrice, tiein |-> NoPrice,
             total |-> NoPrice]

\* lines 319-357; b is the bundle's pair of base prices
calculate_prices(b, cond) ==
    LET base_focal == b.base_focal
        base_tiein == b.base_tiein
        base_total == FAdd(base_focal, base_tiein)
        np_total   == FMul(base_total, KeptShare)
    IN  IF cond = "NP"
        THEN Prices(FMul(base_focal, KeptShare), FMul(base_tiein, KeptShare),
                    NpTotal(base_total))
        ELSE IF cond = "ZP"
        THEN Prices(np_total, FromInt(0), np_total)
        ELSE IF cond = "LP"
        THEN Prices(np_total, LOW_TOKEN_PRICE, FAdd(np_total, LOW_TOKEN_PRICE))
        ELSE Rejected

\* base prices in lari: the small ones, and some of the BUNDLES tables
BasePrices ==
    {Frac(c, 100) : c \in (1..MaxTetri) \cup {500, 1999, 2500, 5112}}

\* the condition names handed to the call: those of PRICE_CONDITIONS
\* (line 43) and names that are none of them
ConditionNames == KnownConditions \cup {"np", "XP", ""}

\* the call is pending
Pending == [status |-> "pending", focal |-> NoPrice, tiein |-> NoPrice,
            total |-> NoPrice]

\* line 380: calculate_prices is about to be called
InitPrices ==
    /\ NoScript /\ HistIdle /\ TrialsIdle /\ PenaltyIdle /\ FlankerIdle
    /\ BlockIdle
    /\ bundle \in [base_focal : BasePrices, base_tiein : BasePrices]
    /\ condition \in ConditionNames
    /\ priced = Pending

\* lines 319-357
CalculatePrices ==
    /\ priced = Pending
    /\ priced' = calculate_prices(bundle, condition)
    /\ UNCHANGED <<bundle, condition, runVars, histVars, trialVars,
                   penaltyVars, flankerVars, blockVars>>

NextPrices == CalculatePrices

SpecPrices == InitPrices /\ [][NextPrices]_vars

(***************************************************************************)
(* The flanker task, flankers/flankers.py: main from line 135 on.  The     *)
(* timed loops of a trial (lines 148-206) end when their clocks run out;   *)
(* what the participant does in a trial is a response that is correct or   *)
(* an error (a wrong key or none), or the escape key.                      *)
(***************************************************************************)
BLOCK_SIZE == 50

N_TRIALS_MIN == 600

N_TRIALS_MAX == 800

ERR_RATE_MIN == Frac(10, 100)

ERR_RATE_MAX == Frac(20, 100)

MIN_ERR_COUNT == 60

\* The participants of the model: in a block the first e trials are errors
\* and the others are correct, for e one of these.
ErrorPlans == {0, 6, 12}

\* a cap that is passed only when exceeded
ReachedMaxStrict(n) == n > N_TRIALS_MAX

\* line 274
ReachedMax(n) == n >= N_TRIALS_MAX

\* a stop on either criterion alone
EarlyStopEither(n, errs) == n >= N_TRIALS_MIN \/ errs >= MIN_ERR_COUNT

\* line 261
EarlyStop(n, errs) == n >= N_TRIALS_MIN /\ errs >= MIN_ERR_COUNT

\* lines 238-244: the feedback line of a block
BlockMessage(errs) ==
    LET block_err_rate == Frac(errs, BLOCK_SIZE)
    IN  IF FLess(ERR_RATE_MAX, block_err_rate) THEN "slow down"
        ELSE IF FLess(block_err_rate, ERR_RATE_MIN) THEN "speed up"
        ELSE "nice pacing"

\* whether trial number n of a block (from 1) is an error under plan e
IsError(n, e) == n <= e

\* lines 141-143: a block begins
StartBlock ==
    /\ fpc = "block_start"
    /\ block_idx' = block_idx + 1
    /\ block_errors' = 0
    /\ t_idx' = 0
    /\ plan' \in ErrorPlans
    /\ fpc' = "trial"
    /\ UNCHANGED <<total_trials, cum_errors, msg, runVars, histVars, priceVars, blockVars, trialVars,
                   penaltyVars>>

\* lines 146-235: one trial, presented, scored and logged
Trial ==
    /\ fpc = "trial"
    /\ t_idx < BLOCK_SIZE
    /\ IF IsError(t_idx + 1, plan)
       THEN /\ block_errors' = block_errors + 1
            /\ cum_errors' = cum_errors + 1
       ELSE UNCHANGED <<block_errors, cum_errors>>
    /\ total_trials' = total_trials + 1
    /\ t_idx' = t_idx + 1
    /\ UNCHANGED <<fpc, block_idx, plan, msg, runVars, histVars, priceVars, blockVars, trialVars,
                   penaltyVars>>

\* lines 176-177 and 198-199: escape while the trial runs, before scoring
EscapeInTrial ==
    /\ fpc = "trial"
    /\ t_idx < BLOCK_SIZE
    /\ fpc' = "quit"
    /\ UNCHANGED <<total_trials, cum_errors, block_idx, block_errors, t_idx, plan,
                   msg, runVars, histVars, priceVars, blockVars, trialVars, penaltyVars>>

\* lines 208-235: escape seen by the quick-quit after the trial is logged
EscapeAfterTrial ==
    /\ fpc = "trial"
    /\ t_idx < BLOCK_SIZE
    /\ IF IsError(t_idx + 1, plan)
       THEN /\ block_errors' = block_errors + 1
            /\ cum_errors' = cum_errors + 1
       ELSE UNCHANGED <<block_errors, cum_errors>>
    /\ total_trials' = total_trials + 1
    /\ t_idx' = t_idx + 1
    /\ fpc' = "quit"
    /\ UNCHANGED <<block_idx, plan, msg, runVars, histVars, priceVars, blockVars, trialVars, penaltyVars>>

\* lines 237-255: the block is over, its feedback is shown
BlockFeedback ==
    /\ fpc = "trial"
    /\ t_idx = BLOCK_SIZE
    /\ msg' = BlockMessage(block_errors)
    /\ fpc' = "feedback"
    /\ UNCHANGED <<total_trials, cum_errors, block_idx, block_errors, t_idx, plan,
                   runVars, histVars, priceVars, blockVars, trialVars, penaltyVars>>

\* lines 255-284: the participant presses the continue key; the stop logic
PressContinue ==
    /\ fpc = "feedback"
    /\ fpc' = IF EarlyStop(total_trials, cum_errors) THEN "end_early"
              ELSE IF ReachedMax(total_trials) THEN "end_max"
              ELSE "block_start"
    /\ UNCHANGED <<total_trials, cum_errors, block_idx, block_errors, t_idx, plan,
                   msg, runVars, histVars, priceVars, blockVars, trialVars, penaltyVars>>

\* lines 255-257: the participant presses escape at the feedback
EscapeAtFeedback ==
    /\ fpc = "feedback"
    /\ fpc' = "quit"
    /\ UNCHANGED <<total_trials, cum_errors, block_idx, block_errors, t_idx, plan,
                   msg, runVars, histVars, priceVars, blockVars, trialVars, penaltyVars>>

\* lines 286-293: _wait_exit sees a key, the window closes
WaitExit ==
    /\ fpc \in {"end_early", "end_max"}
    /\ fpc' = "closed"
    /\ UNCHANGED <<total_trials, cum_errors, block_idx, block_errors, t_idx, plan,
                   msg, runVars, histVars, priceVars, blockVars, trialVars, penaltyVars>>

\* lines 135-137
InitFlanker ==
    /\ NoScript /\ HistIdle /\ PriceIdle /\ BlockIdle
    /\ TrialsIdle /\ PenaltyIdle
    /\ fpc = "block_start"
    /\ total_trials = 0 /\ cum_errors = 0 /\ block_idx = 0
    /\ block_errors = 0 /\ t_idx = 0 /\ plan = 0 /\ msg = "none"

NextFlanker ==
    \/ StartBlock
    \/ Trial
    \/ EscapeInTrial
    \/ EscapeAfterTrial
    \/ BlockFeedback
    \/ PressContinue
    \/ EscapeAtFeedback
    \/ WaitExit

\* The steps of the program go on while the process runs, and the
\* participant presses the continue key at every feedback screen unless
\* they press escape.
SpecFlanker ==
    /\ InitFlanker
    /\ [][NextFlanker]_vars
    /\ WF_vars(StartBlock)
    /\ WF_vars(Trial)
    /\ WF_vars(BlockFeedback)
    /\ WF_vars(PressContinue)

\* the stop logic has ended the session
FlankerEnded == fpc \in {"end_early", "end_max", "closed"}

\* the session was aborted by the escape key
FlankerAborted == fpc = "quit"

(***************************************************************************)
(* The trials of one flanker block: gen_block_trials (flankers.py lines    *)
(* 56-101).  A stimulus string is the sequence of its characters.          *)
(***************************************************************************)
\* Largest block_size the model draws (the task calls with BLOCK_SIZE).
MaxBlockSize == 6

\* lines 76-78: the 5-character string of a center and a congruency
build(center, congruent) ==
    LET flank == IF congruent THEN center
                 ELSE IF center = ">" THEN "<" ELSE ">"
    IN  <<flank, flank, center, flank, flank>>

\* lines 81-98: the dict appended for a center and a congruency
TrialDict(c, congruent) ==
    [stim_str    |-> build(c, congruent),
     center      |-> c,
     congruent   |-> congruent,
     correct_key |-> IF c = "<" THEN "lshift" ELSE "slash"]

\* n copies of the trial t
Repeat(n, t) == [q \in 1..n |-> t]

\* lines 63-98: the list before the shuffle
BuiltTrials(size) ==
    LET n_cong         == size \div 2
        n_incong       == size - n_cong
        n_cong_left    == n_cong \div 2
        n_cong_right   == n_cong - n_cong_left
        n_incong_left  == n_incong \div 2
        n_incong_right == n_incong - n_incong_left
    IN  Repeat(n_cong_left, TrialDict("<", TRUE))
          \o Repeat(n_cong_right, TrialDict(">", TRUE))
          \o Repeat(n_incong_left, TrialDict("<", FALSE))
          \o Repeat(n_incong_right, TrialDict(">", FALSE))

\* number of trials of the list equal to t
CountOf(list, t) == Cardinality({q \in DOMAIN list : list[q] = t})

\* line 100: the orders random.shuffle can leave the list in
ShuffledOrders(list) ==
    LET kinds == {list[q] : q \in DOMAIN list}
    IN  {o \in [1..Len(list) -> kinds] :
            \A t \in kinds : CountOf(o, t) = CountOf(list, t)}

\* line 142: gen_block_trials is called
InitBlock ==
    /\ NoScript /\ HistIdle /\ TrialsIdle /\ PenaltyIdle /\ FlankerIdle
    /\ PriceIdle
    /\ block_size \in 0..MaxBlockSize
    /\ gpc = "call"
    /\ block_trials = <<>>

\* lines 63-98
BuildBlock ==
    /\ gpc = "call"
    /\ block_trials' = BuiltTrials(block_size)
    /\ gpc' = "built"
    /\ UNCHANGED <<block_size, runVars, histVars, trialVars, penaltyVars,
                   flankerVars, priceVars>>

\* lines 100-101
ShuffleBlock ==
    /\ gpc = "built"
    /\ block_trials' \in ShuffledOrders(block_trials)
    /\ gpc' = "returned"
    /\ UNCHANGED <<block_size, runVars, histVars, trialVars, penaltyVars,
                   flankerVars, priceVars>>

NextBlock ==
    \/ BuildBlock
    \/ ShuffleBlock

SpecBlock == InitBlock /\ [][NextBlock]_vars

(***************************************************************************)
(* Properties.                                                             *)
(***************************************************************************)
\* number of occurrences of v in a flat array
Count(flat, v) == Cardinality({p \in DOMAIN flat : flat[p] = v})

\* two flat arrays hold the same multiset of values
SameMultiset(a, b) ==
    /\ Len(a) = Len(b)
    /\ \A v \in SeqRange(a) \cup SeqRange(b) : Count(a, v) = Count(b, v)

AllDistinct(flat) == \A p, q \in DOMAIN flat : p # q => flat[p] # flat[q]

\* C1: the channel hist_match_channel returns holds exactly the multiset
\* of values of the template of the same shape.
C1_HistogramExact ==
    matched # NoArray => SameMultiset(Ravel(matched), Ravel(tmpl))

\* C1 where no value repeats in the source or in the template: there the
\* returned channel is a rearrangement of the template.
C1_ExactWhenDistinct ==
    (matched # NoArray /\ AllDistinct(Ravel(src)) /\ AllDistinct(Ravel(tmpl)))
        => SameMultiset(Ravel(matched), Ravel(tmpl))

\* C1: a call whose template repeats a value and whose source does not.
C1_TiesInTemplate ==
    /\ matched # NoArray
    /\ AllDistinct(Ravel(src))
    /\ ~AllDistinct(Ravel(tmpl))

\* the lines of a given tag printed for input p
LinesFor(tag, p) == {i \in DOMAIN log : log[i].tag = tag /\ log[i].base = BaseName(p)}

SkipLines == {i \in DOMAIN log : log[i].tag = "SKIP"}

\* the files of the directory of some kinds
OfKind(kinds) == {p \in DOMAIN dir : dir[p].kind \in kinds}

\* one unreadable file among N >= 1 valid files, and nothing else
OneCorruptAmongValid ==
    /\ Cardinality(OfKind({"corrupt", "truncated"})) = 1
    /\ Cardinality(OfKind({"ok"})) >= 1
    /\ OfKind({"unwritable"}) = {}

\* C2: a run over one corrupt file among N valid files completes, writes
\* exactly N outputs and prints exactly one skip line, which names the
\* corrupt file; no exception ends the run.
C2_GracefulSkip ==
    (OneCorruptAmongValid /\ run = 1)
        => /\ pc # "raised" /\ pc # "aborted"
           /\ pc = "done"
                => /\ Cardinality(DOMAIN outputs) = Cardinality(OfKind({"ok"}))
                   /\ Cardinality(SkipLines) = 1
                   /\ \A p \in OfKind({"corrupt", "truncated"}) :
                         Cardinality(LinesFor("SKIP", p)) = 1

\* C3: when the write of one item fails, every other readable input of the
\* run still gets its output written.
C3_OtherItemsWritten ==
    (pc = "raised" /\ run = 1)
        => \A p \in OfKind({"ok"}) : LinesFor("OK", p) # {}

\* C4: a step in which save_rgb01 fails ends the run with the exception,
\* prints no [OK] line for the item and leaves the outputs written so far
\* as they are.
C4_WriteFailurePropagates ==
    [][(pc = "save" /\ label # "none" /\ ~SaveSucceeds(dir, Paths[k]))
          => /\ pc' = "raised"
             /\ outputs' = outputs
             /\ log' = log
             /\ \A i \in DOMAIN log' :
                   log'[i].tag = "OK" => log'[i].base # BaseName(Paths[k])]_vars

\* C4: a run ended by a failed write after an earlier item was written.
C4_FailedAfterWrites == pc = "raised" /\ DOMAIN outputs # {}

\* the files that is_image_ok accepts
ValidFiles == {p \in DOMAIN dir : is_image_ok(dir, p)}

\* C5: the run aborts exactly when no file of either class is valid, and
\* an aborted run has created no generator, loaded no image in batch and
\* written no output.
C5_EmptyInputAborts ==
    /\ pc = "aborted"
          => /\ ValidFiles = {}
             /\ ~rng.created
             /\ loadCalls = {}
             /\ DOMAIN outputs = {}
             /\ log[Len(log)].tag = "SystemExit"
    /\ (ValidFiles # {}) => pc # "aborted"
    /\ (ValidFiles = {}) => pc \in {"glob", "filter", "check", "aborted"}

\* C5: a run aborted over a directory that holds (only corrupt) files.
C5_AbortedWithFiles == pc = "aborted" /\ DOMAIN dir # {}

\* the order in which the script handles two inputs: faces before cars,
\* and by path within a class
HandledBefore(q, p) ==
    \/ q.cls = "face" /\ p.cls = "car"
    \/ q.cls = p.cls /\ PathLess(q, p)

\* the inputs that load_rgb01 loads
Loadable == {p \in DOMAIN dir : is_image_ok(dir, p) /\ LoadResult(dir, p) = "array"}

\* C6: a second run with the same seed over the same files writes the same
\* outputs as the first, whatever order glob lists the files in; the image
\* that is the n-th to load, in the order faces by path then cars by path,
\* receives the n-th field drawn from the generator.
C6_SeedDeterminism ==
    /\ (run = 2 /\ Terminated) => outputs = firstOutputs
    /\ \A p \in DOMAIN fieldOf :
          fieldOf[p] = Cardinality({q \in Loadable : HandledBefore(q, p)}) + 1

\* C6: a second run ended after writing two output files.
C6_SecondRunDone == run = 2 /\ pc = "done" /\ Cardinality(DOMAIN outputs) >= 2

\* an array of the given shape (H, W, C)
HasShape(img, sh) ==
    /\ Len(img) = sh[3]
    /\ \A c \in DOMAIN img :
          /\ Len(img[c]) = sh[1]
          /\ \A i \in DOMAIN img[c] : Len(img[c][i]) = sh[2]

\* C7: a call of phase_scramble_color_shared draws from the generator once,
\* one field of H x W values, and every pass of the channel loop mixes in
\* that field: each returned channel is the scramble of the input channel
\* by it.
C7_SharedPhaseField ==
    [][(pc = "scramble" /\ pc' = "match")
          => LET H == Shape(x)[1]
                 W == Shape(x)[2]
                 field == UniformField(rng, H, W)
             IN  /\ rng'.draws = rng.draws + 1
                 /\ rng'.pos = rng.pos + H * W
                 /\ \A c \in 1..3 :
                       /\ scr'.phi[c] = field
                       /\ x_scr'[c] = ScrambleChannel(x[c], alpha0, field)]_vars

\* C7: a call on an image of more than one pixel has returned.
C7_ScrambledSeveralPixels ==
    pc = "match" /\ scr.status = "ok" /\ Shape(x)[1] * Shape(x)[2] >= 2

\* C8: the scrambled array, the matched array and the array the writer
\* receives have the shape H x W x 3 of the input; an array whose channel
\* count is not 3 is rejected by the assertion and yields no output.
C8_DimensionsPreserved ==
    /\ pc = "match" => HasShape(x_scr, Shape(x))
    /\ pc = "save" => /\ HasShape(x_scr, Shape(x))
                      /\ HasShape(x_s, Shape(x))
                      /\ HasShape(ToUint8(x_s), Shape(x))
    /\ pc \in {"match", "save"} => Shape(x)[3] = 3
    /\ (pc \in {"scramble", "raised"} /\ x # NoArray /\ Shape(x)[3] # 3)
          => x_scr = NoArray /\ x_s = NoArray
    /\ pc = "raised" /\ label = "none"
          => Shape(x)[3] # 3 /\ scr.status = "AssertionError"

\* C8: an image that is not square is ready for the writer.
C8_NonSquareMatched == pc = "save" /\ Shape(x)[1] # Shape(x)[2]

\* the samples of an image
Samples(img) ==
    {img[c][i][j] : c \in DOMAIN img, i \in 1..Shape(img)[1], j \in 1..Shape(img)[2]}

InUnitRange(v) == FLeq(Zero, v) /\ FLeq(v, FromInt(White))

\* C9: every sample of the image handed to save_rgb01 lies in [0,1], and
\* every level written lies in 0..255.
C9_OutputRange ==
    pc = "save"
        => /\ \A v \in Samples(x_s) : InUnitRange(v)
           /\ \A b \in Samples(ToUint8(x_s)) : b \in 0..White

\* C9: an image is handed to the writer whose scramble left [0,1].
C9_ScrambleLeftRange ==
    pc = "save" /\ \E v \in Samples(x_scr) : ~InUnitRange(v)

\* C10: the amplitude spectrum of every channel phase_scramble_color_shared
\* returns equals the amplitude spectrum of the original channel.
C10_AmplitudePreserved ==
    pc = "match" => \A c \in 1..3 : Amplitude(x_scr[c]) = Amplitude(x[c])

IsNumericIndex(chars) == Len(chars) >= 1 /\ \A i \in DOMAIN chars : chars[i] \in 48..57

\* the input of a printed line
InputOf(line) == CHOOSE p \in DOMAIN dir : BaseName(p) = line.base

\* C12: every input <class>_<n>.jpg with a numeric index n that is written
\* gets the output name scrambled_<class>_<n>.jpg, that is "scrambled_"
\* followed by the input's own name; the class of the name is the label of
\* the batch that handles the input; the name is a function of the input
\* name and the label alone.
C12_OutputNaming ==
    /\ \A i \in DOMAIN log :
          (log[i].tag = "OK" /\ IsNumericIndex(InputOf(log[i]).suffix))
              => /\ log[i].out = ScrambledPrefix \o log[i].base
                 /\ log[i].out = ScrambledPrefix \o ClassChars(InputOf(log[i]).cls)
                                    \o <<Underscore>> \o InputOf(log[i]).suffix \o DotJpg
                 /\ log[i].out \in DOMAIN outputs
    /\ \A i \in DOMAIN log :
          log[i].tag = "OK" => log[i].out = OutName(InputOf(log[i]), InputOf(log[i]).cls)
    /\ (pc \in {"scramble", "match", "save"} /\ label # "none")
          => Paths[k].cls = label

\* C12: a run wrote the output of a face and of a car with a two-digit index.
C12_FaceAndCarWritten ==
    /\ pc = "done"
    /\ \E i, j \in DOMAIN log :
          /\ log[i].tag = "OK" /\ InputOf(log[i]).cls = "face"
          /\ IsNumericIndex(InputOf(log[i]).suffix)
          /\ log[j].tag = "OK" /\ InputOf(log[j]).cls = "car"
          /\ Len(InputOf(log[j]).suffix) = 2

\* the positions of the events of input p
EventsOf(p) == {i \in DOMAIN events : events[i].path = p}

\* the inputs whose work has begun and not ended
InProgress ==
    {p \in DOMAIN dir :
        /\ \E i \in EventsOf(p) : events[i].ev = "load"
        /\ \A i \in EventsOf(p) : events[i].ev \notin {"save", "skip"}}

\* the position a step has within the work on one image
StageOf(ev) ==
    CASE ev = "load" -> 1
      [] ev = "scramble" -> 2
      [] ev = "match" -> 3
      [] OTHER -> 4

\* C13: the events of one image (load, scramble, match, save, in that
\* order) all occur before the load of the next image, at most one image
\* is in progress at any point, and every event of a face precedes every
\* event of a car.
C13_StrictlySequential ==
    /\ \A i, j, l \in DOMAIN events :
          (i < j /\ j < l /\ events[j].ev = "load" /\ events[j].path # events[i].path)
              => events[l].path # events[i].path
    /\ \A i, j \in DOMAIN events :
          (i < j /\ events[i].path = events[j].path)
              => StageOf(events[i].ev) < StageOf(events[j].ev)
    /\ \A i \in DOMAIN events :
          events[i].ev # "load" => (i > 1 /\ events[i - 1].path = events[i].path)
    /\ Cardinality(InProgress) <= 1
    /\ \A i, j \in DOMAIN events :
          (i < j /\ events[i].path.cls = "car") => events[j].path.cls = "car"

\* C13: a run that saved two faces and then a car.
C13_ThreeImagesHandled ==
    /\ pc = "done"
    /\ Cardinality({i \in DOMAIN events :
                       events[i].ev = "save" /\ events[i].path.cls = "face"}) = 2
    /\ \E i \in DOMAIN events : events[i].ev = "save" /\ events[i].path.cls = "car"

\* C14: the list build_trials returns holds no bundle twice within any 3
\* consecutive trials, that is at no two positions at distance 1 or 2.
C14_NoRepeatWithinThree ==
    TrialsReturned
        => \A p, q \in 1..Len(shuffled) :
              (p < q /\ q - p <= 2) => shuffled[p].bundle_id # shuffled[q].bundle_id

\* the positions of a list that hold the trial of bundle b and condition c
PositionsOf(trials, b, c) ==
    {q \in DOMAIN trials : trials[q].bundle_id = b /\ trials[q].condition = c}

\* C20: at every point of the repair, and in the list build_trials returns
\* with or without the warning, the list is a permutation of all_trials:
\* N_BUNDLES * len(PRICE_CONDITIONS) trials, exactly one for every pair of
\* a bundle and a price condition.
C20_RepairOnlyReorders ==
    tpc \in {"repair", "returned", "warned"}
        => /\ Len(shuffled) = N_BUNDLES * Len(PRICE_CONDITIONS)
           /\ Len(shuffled) = Len(all_trials)
           /\ \A b \in BundleIds : \A n \in DOMAIN PRICE_CONDITIONS :
                 Cardinality(PositionsOf(shuffled, b, PRICE_CONDITIONS[n])) = 1
           /\ \A q \in DOMAIN all_trials :
                 \E r \in DOMAIN shuffled : shuffled[r] = all_trials[q]

\* C20: a list is returned with the warning that is none of the shuffles
\* drawn: the repair has swapped and the constraint is still not met.
C20_WarnedAfterSwap == tpc = "warned" /\ shuffled \notin InitialShuffles

\* C15: total_trials never exceeds N_TRIALS_MAX; the stop logic ends the
\* session only at a block boundary, after at most N_TRIALS_MAX /
\* BLOCK_SIZE blocks; and a session in which the participant presses the
\* continue key after each block, and is not aborted by escape, eventually
\* ends.
C15_SessionLength ==
    /\ [](total_trials <= N_TRIALS_MAX)
    /\ [](block_idx <= N_TRIALS_MAX \div BLOCK_SIZE)
    /\ [](FlankerEnded => /\ t_idx = BLOCK_SIZE
                          /\ total_trials = block_idx * BLOCK_SIZE
                          /\ total_trials % BLOCK_SIZE = 0)
    /\ <>(FlankerEnded \/ FlankerAborted)

\* C15: a session ended by the cap after 16 blocks.
C15_EndedAtCap ==
    fpc = "end_max" /\ total_trials = N_TRIALS_MAX /\ block_idx = 16

\* C16: calculate_penalty(b) is 20 for b < 20, 10 for 20 <= b <= 24, 5 for
\* 25 <= b <= 29 and 0 for b >= 30; it is the penalty the instructions
\* announce, and the band of the end screen is the band of that penalty.
C16_PenaltyRule ==
    penalty_desc \notin {"none", "pending"}
        => /\ bundles_bought < 20 => penalty = 20
           /\ (20 <= bundles_bought /\ bundles_bought <= 24) => penalty = 10
           /\ (25 <= bundles_bought /\ bundles_bought <= 29) => penalty = 5
           /\ bundles_bought >= 30 => penalty = 0
           /\ penalty = InstructedPenalty(bundles_bought)
           /\ penalty_desc # "computed"
                 => /\ penalty_desc = "< 20" <=> penalty = 20
                    /\ penalty_desc = "20-24" <=> penalty = 10
                    /\ penalty_desc = "25-29" <=> penalty = 5
                    /\ penalty_desc = ">= 30" <=> penalty = 0

\* C16: the end screen is shown for exactly 20 bundles bought.
C16_TwentyBought == bundles_bought = 20 /\ penalty_desc = "20-24" /\ penalty = 10

\* the angles handed to wrap_phase at line 80 for the image x
WrapInputs ==
    {alpha0 * OriginalPhase(x[c])[u][v] + (1 - alpha0) * scr.phi[c][u][v] :
        c \in 1..3, u \in 1..Shape(x)[1], v \in 1..Shape(x)[2]}

\* an angle in (-pi, pi], in quarter turns
InHalfOpenUpper(q) == -2 < q /\ q <= 2

\* an angle in [-pi, pi), in quarter turns
InHalfOpenLower(q) == -2 <= q /\ q < 2

\* C17: wrap_phase returns a value in (-pi, pi] that is congruent to its
\* input modulo 2 pi, and maps an odd multiple of pi to pi: for every
\* angle handed to it at line 80 and for every multiple of pi/2 up to
\* MaxTurns quarter turns.
C17_WrapUpperInterval ==
    (pc = "match")
        => \A ph \in WrapInputs \cup ((-MaxTurns)..MaxTurns) :
              /\ InHalfOpenUpper(wrap_phase(ph))
              /\ (wrap_phase(ph) - ph) % 4 = 0
              /\ (ph % 4 = 2) => wrap_phase(ph) = 2

\* C17 as amended: wrap_phase returns a value in [-pi, pi) that is
\* congruent to its input modulo 2 pi, and maps an odd multiple of pi to
\* -pi.
C17_WrapLowerInterval ==
    (pc = "match")
        => \A ph \in WrapInputs \cup ((-MaxTurns)..MaxTurns) :
              /\ InHalfOpenLower(wrap_phase(ph))
              /\ (wrap_phase(ph) - ph) % 4 = 0
              /\ (ph % 4 = 2) => wrap_phase(ph) = -2

\* C17: a scramble with alpha = 1 in which an original phase of pi was
\* handed to wrap_phase.
C17_WrappedPi ==
    /\ pc = "match"
    /\ \E c \in 1..3, u \in 1..Shape(x)[1], v \in 1..Shape(x)[2] :
          OriginalPhase(x[c])[u][v] = 2 /\ alpha0 = 1

\* C18: hist_match_channel preserves order: for every two positions p and
\* q, source[p] <= source[q] implies matched[p] <= matched[q], and equal
\* source values get equal output values.
C18_OrderPreserving ==
    matched # NoArray
        => LET s == Ravel(src)
               mt == Ravel(matched)
           IN  \A p, q \in DOMAIN s :
                  /\ FLeq(s[p], s[q]) => FLeq(mt[p], mt[q])
                  /\ s[p] = s[q] => mt[p] = mt[q]

\* C18: a call whose source is not sorted and whose result holds two
\* different values.
C18_UnsortedSourceMatched ==
    /\ matched # NoArray
    /\ \E p, q \in DOMAIN Ravel(src) :
          /\ p < q /\ FLess(Ravel(src)[q], Ravel(src)[p])
          /\ FLess(Ravel(matched)[q], Ravel(matched)[p])

\* C19: every value hist_match_channel returns lies between the smallest
\* and the largest value of the template, hence in [0,1] for a template in
\* [0,1], and the clip that follows the matching in batch changes no
\* sample.
C19_ClipIsNoOp ==
    matched # NoArray
        => /\ \A p \in DOMAIN Ravel(matched) :
                 /\ \E q \in DOMAIN Ravel(tmpl) : FLeq(Ravel(tmpl)[q], Ravel(matched)[p])
                 /\ \E q \in DOMAIN Ravel(tmpl) : FLeq(Ravel(matched)[p], Ravel(tmpl)[q])
                 /\ InUnitRange(Ravel(matched)[p])
                 /\ ClipValue(Ravel(matched)[p], Zero, FromInt(White)) = Ravel(matched)[p]
           /\ MatchedAndClipped(Gray(src), Gray(tmpl)) = Gray(matched)

\* C19: a call whose source has a sample below 0 and whose smallest value
\* is rarer than the smallest value of a template of two values or more.
C19_SourceBelowRange ==
    /\ matched # NoArray
    /\ \E p \in DOMAIN Ravel(src) : FLess(Ravel(src)[p], Zero)
    /\ Len(Unique(Ravel(tmpl))) >= 2
    /\ UniqueCounts(Ravel(src))[1] < UniqueCounts(Ravel(tmpl))[1]

\* C21: shuffle_with_constraint returns on every list and for every random
\* outcome: a pass visits the positions once each, in order; there are at
\* most max_repair_passes passes; a pass that ends with no violating
\* position returns the list at once, and only such a pass returns it
\* without the warning.
C21_RepairTerminates ==
    /\ <>TrialsReturned
    /\ [](pass_num < MaxRepairPasses)
    /\ [](tpc = "repair" => (1 <= pos_i /\ pos_i <= Len(shuffled) + 1))
    /\ [](TrialsReturned => pos_i = Len(shuffled) + 1)
    /\ [](tpc = "returned" => all_ok(shuffled))
    /\ [](tpc = "warned" => ~all_ok(shuffled) /\ pass_num = MaxRepairPasses - 1)
    /\ [][(tpc = "repair" /\ pos_i > Len(shuffled) /\ all_ok(shuffled))
             => tpc' = "returned"]_vars
    /\ [][(tpc = "repair" /\ tpc' = "repair")
             => \/ pos_i' = pos_i + 1 /\ pass_num' = pass_num
                \/ pos_i = Len(shuffled) + 1 /\ pos_i' = 1
                      /\ pass_num' = pass_num + 1]_vars

\* C21: the call returned, with the warning, a list of two bundles, which
\* has no order free of violations.
C21_WarnedOnTwoBundles ==
    tpc = "warned" /\ Len(shuffled) = 2 * Len(PRICE_CONDITIONS)

\* the price v is a whole number of tetri at most half a tetri from w
RoundedFrom(v, w) ==
    /\ (v[1] * 100) % v[2] = 0
    /\ FLeq(FAbs(FSub(v, w)), Frac(1, 200))

\* C22: the price frames of a bundle.  ZP: the tie-in is free and the
\* total is the NP total of the bundle.  LP: the tie-in costs 0.1 and the
\* focal price is the ZP focal price.  NP: each product carries the 20%
\* discount (to the tetri).  Any other condition name raises and yields
\* no prices.
C22_PriceFrames ==
    priced.status # "pending" =>
        /\ condition = "ZP" =>
              /\ priced.status = "returned"
              /\ priced.tiein = FromInt(0)
              /\ priced.total = calculate_prices(bundle, "NP").total
        /\ condition = "LP" =>
              /\ priced.status = "returned"
              /\ priced.tiein = Frac(1, 10)
              /\ priced.focal = calculate_prices(bundle, "ZP").focal
        /\ condition = "NP" =>
              /\ priced.status = "returned"
              /\ RoundedFrom(priced.focal,
                             FMul(bundle.base_focal, Frac(80, 100)))
              /\ RoundedFrom(priced.tiein,
                             FMul(bundle.base_tiein, Frac(80, 100)))
        /\ condition \notin {"NP", "ZP", "LP"} =>
              /\ priced.status = "ValueError"
              /\ priced.focal = NoPrice /\ priced.tiein = NoPrice
              /\ priced.total = NoPrice

\* C22: the ZP prices of a bundle with base prices 25 and 5 were returned
C22_ZeroPriceReturned ==
    /\ condition = "ZP" /\ priced.status = "returned"
    /\ bundle = [base_focal |-> FromInt(25), base_tiein |-> FromInt(5)]
    /\ priced.total = FromInt(24)

\* the number of trials of the returned block that satisfy P
BlockCount(P(_)) == Cardinality({q \in DOMAIN block_trials : P(block_trials[q])})

IsCongruent(t) == t.congruent

IsLeft(t) == t.center = "<"

\* the stimulus has 5 characters: the center in the middle, and flankers
\* equal to it when congruent and the opposite arrow when not
WellFormed(t) ==
    /\ t.center \in {"<", ">"}
    /\ Len(t.stim_str) = 5
    /\ t.stim_str[3] = t.center
    /\ \A q \in {1, 2, 4, 5} :
          /\ t.stim_str[q] \in {"<", ">"}
          /\ (t.stim_str[q] = t.center) <=> t.congruent
    /\ (t.correct_key = "lshift") <=> (t.center = "<")
    /\ t.correct_key \in {"lshift", "slash"}

\* C23: gen_block_trials returns block_size trials, half of them
\* congruent and half incongruent, half with center '<' and half with
\* center '>'; each stimulus has 5 characters with flankers equal to the
\* center exactly when congruent, and correct_key is 'lshift' exactly when
\* the center is '<'.
C23_BlockComposition ==
    gpc = "returned" =>
        /\ Len(block_trials) = block_size
        /\ 2 * BlockCount(IsCongruent) = block_size
        /\ 2 * BlockCount(IsLeft) = block_size
        /\ \A q \in DOMAIN block_trials : WellFormed(block_trials[q])

\* both criteria of the early stop hold
CriteriaMet == total_trials >= N_TRIALS_MIN /\ cum_errors >= MIN_ERR_COUNT

\* C24: the session stops below the trial ceiling only at the end of a
\* block at which total_trials >= N_TRIALS_MIN and cum_errors >=
\* MIN_ERR_COUNT; at a block end where both hold it stops, so no block
\* begins after such a block end; and a session that ends without escape
\* has run at least N_TRIALS_MIN trials.
C24_EarlyStop ==
    /\ []((FlankerEnded /\ total_trials < N_TRIALS_MAX)
             => t_idx = BLOCK_SIZE /\ CriteriaMet)
    /\ [](fpc = "end_early" => t_idx = BLOCK_SIZE /\ CriteriaMet)
    /\ [][(fpc = "feedback" /\ CriteriaMet /\ fpc' # "quit")
             => fpc' = "end_early"]_vars
    /\ [][(fpc = "feedback" /\ ~CriteriaMet)
             => fpc' # "end_early"]_vars
    /\ []((fpc = "block_start" \/ (fpc = "trial" /\ t_idx = 0)) => ~CriteriaMet)
    /\ [](FlankerEnded => total_trials >= N_TRIALS_MIN)

\* C24: the session stopped early after 13 blocks: at the end of block 12
\* the trials were enough and the errors were not
C24_StoppedAfterThirteen ==
    fpc = "end_early" /\ total_trials = 650 /\ cum_errors < MIN_ERR_COUNT + 12

\* the step printed a [SKIP] line
SkipStep == Len(log') = Len(log) + 1 /\ log'[Len(log')].tag = "SKIP"

\* C25: a file that batch skips takes no draw from the shared generator,
\* and the run writes the files, with the contents, that the run over the
\* directory without the skipped file writes.
C25_SkipTakesNoDraw ==
    /\ [][SkipStep => rng' = rng]_vars
    /\ []((run = 2 /\ Terminated) => outputs = firstOutputs)

\* C25: both runs have ended; the second, without a skipped file, found
\* only car_12.jpg, the last file in the order of the first, and wrote its
\* output
C25_LastFileAfterSkip ==
    /\ run = 2 /\ pc = "done"
    /\ DOMAIN dir = {[cls |-> "car", suffix |-> <<49, 50>>]}
    /\ DOMAIN outputs # {}
    /\ outputs = firstOutputs

\* the [OK] lines of the run: one for each input processed and saved
Processed == {n \in DOMAIN log : log[n].tag = "OK"}

\* C26: no output overwrites another within a run: two distinct inputs
\* that were processed got distinct output names, so there are as many
\* output files as inputs processed.
C26_NoOverwrite ==
    /\ \A m, n \in Processed : m # n => log[m].out # log[n].out
    /\ Cardinality(DOMAIN outputs) = Cardinality(Processed)
=============================================================================
